---- MODULE Spec2Model ----
(***************************************************************************)
(* Azure Toolkit Flows app: the Service Bus Subscription block (both the   *)
(* connection-string version and the access-token version of               *)
(* blocks/serviceBusSubscription.ts) and the one-shot Service Bus Queue    *)
(* Reader (blocks/serviceBusQueue.ts), as one state machine.               *)
(*                                                                         *)
(* A handler (onSync, onDrain, schedules.poll.onTrigger, inputs.default.   *)
(* onEvent) runs one awaited call per step; handler/pc hold its position.  *)
(* The host serializes the handlers of one block instance, so a handler    *)
(* starts only when the previous one has finished (pc = "done").           *)
(* Every awaited provider or sink call is an input of its step: it either  *)
(* returns or raises.  The block store (kv) and lifecycle.sync() are       *)
(* taken to return normally.                                               *)
(***************************************************************************)
EXTENDS Integers, Sequences, FiniteSets, TLC

\* ---------------------------------------------------------------- bounds
\* Messages ever enqueued by the external sender.
MaxMsgs == 3
\* Largest batch one receive call hands back (stands for maxMessages).
MaxBatch == 2
\* Handler invocations (each reads the wall clock once at its start).
MaxClock == 5

\* ------------------------------------------------------------- constants
\* The absent value of a store key or a signal (`x?.value || null`).
Null == 0
\* `|| 10`: the count asked for when maxMessages is not configured.
DefaultMaxMessages == 10
\* Math.min(..., 2047): the provider's ceiling on one receive call.
ReceiveCeiling == 2047
\* `Date.now() + 3600000`: one hour in milliseconds.
OneHourMs == 3600000

Variants == {"conn", "token", "reader"}
Subscription == {"conn", "token"}

VARIABLES
    variant,        \* which block is installed: conn / token subscription, or reader
    configOk,       \* the installed configuration names a usable connection and queue
    provider,       \* the Service Bus namespace: "flaky", or settled "up" / "down"
    sessions,       \* ServiceBusClient sessions of this block instance now open
    status,         \* input.block.lifecycle.status, held by the host
    description,    \* customStatusDescription of the last onSync result
    sigCheck,       \* signal lastCheckTime shown by the host
    sigRecv,        \* signal lastMessageReceivedTime shown by the host
    kvCheck,        \* kv.block[KV_LAST_CHECK_TIME]
    kvRecv,         \* kv.block[KV_LAST_MESSAGE_RECEIVED_TIME]
    clock,          \* wall clock (new Date())
    syncRequested,  \* lifecycle.sync() was called and onSync has not run yet
    handler,        \* the handler running (or the last one run, when pc = "done")
    pc,             \* its position
    startedAt,      \* the clock reading the handler took when it started
    client,         \* local `client`: "null" or "open"
    checkTime,      \* local `checkTime` / `checkedAt`
    batch,          \* local `receivedMessages`
    idx,            \* loop position in batch (1-based)
    caught,         \* the catch block of the handler ran
    outcome,        \* how the last finished handler ended
    thrown,         \* the exception the handler raises to the host ("none": it returns)
    log,            \* provider / sink calls of the current handler, in order
    queue,          \* messages in the Service Bus queue, oldest first
    nextId,         \* next message id the sender will use
    pure            \* the last helper call looked at on its own: function, input, result

handlerVars == <<variant, configOk, provider, sessions, status, description, sigCheck, sigRecv, kvCheck, kvRecv, clock,
                 syncRequested, handler, pc, startedAt, client, checkTime, batch,
                 idx, caught, outcome, thrown, log, queue, nextId>>

vars == <<handlerVars, pure>>

hostVars == <<status, sigCheck, sigRecv>>
kvVars == <<kvCheck, kvRecv>>
localVars == <<client, checkTime, batch, idx, caught>>

\* ---------------------------------------------------------------- helpers
Min(a, b) == IF a < b THEN a ELSE b

RECURSIVE Without(_, _)
\* The queue after message m was completed (removed by the provider).
Without(s, m) ==
    IF s = <<>> THEN <<>>
    ELSE IF Head(s) = m THEN Tail(s)
    ELSE <<Head(s)>> \o Without(Tail(s), m)

\* No helper call is being looked at.
NoCall == [fn |-> "none", arg |-> Null, res |-> Null]

Entry(op, m, ok) == [op |-> op, m |-> m, ok |-> ok]

MutHostOverlaps == TRUE

Idle == pc = "done"

Init ==
    /\ variant \in Variants
    /\ configOk \in BOOLEAN
    /\ provider = "flaky"
    /\ sessions = 0
    /\ status = "init"
    /\ description = "none"
    /\ sigCheck = Null
    /\ sigRecv = Null
    /\ kvCheck = Null
    /\ kvRecv = Null
    /\ clock = 0
    /\ syncRequested = FALSE
    /\ handler = "none"
    /\ pc = "done"
    /\ startedAt = Null
    /\ client = "null"
    /\ checkTime = Null
    /\ batch = <<>>
    /\ idx = 1
    /\ caught = FALSE
    /\ outcome = "none"
    /\ thrown = "none"
    /\ log = <<>>
    /\ queue = <<>>
    /\ nextId = 1
    /\ pure = NoCall

\* A sender outside the app puts a message on the queue.
Enqueue ==
    /\ Idle
    /\ nextId <= MaxMsgs
    /\ queue' = Append(queue, nextId)
    /\ nextId' = nextId + 1
    /\ UNCHANGED <<pure, thrown, variant, configOk, provider, sessions, description, hostVars, kvVars, clock, syncRequested, handler,
                   startedAt, pc, localVars, outcome, log>>

\* A handler starts: fresh locals, one clock reading; l holds the calls the
\* handler makes before its first suspension that the model splits on.
Start(h, p, l) ==
    /\ Idle
    /\ provider = "flaky" => clock < MaxClock
    /\ clock' = Min(clock + 1, MaxClock)
    /\ handler' = h
    /\ startedAt' = clock'
    /\ pc' = p
    /\ client' = "null"
    /\ batch' = <<>>
    /\ idx' = 1
    /\ caught' = FALSE
    /\ thrown' = "none"
    /\ log' = l

Begin(h, p) == Start(h, p, <<>>)

\* await lifecycle.sync(): the host is asked to run onSync.
SyncCall == <<Entry("sync", 0, TRUE)>>

\* A handler returns (or raises) to the host.
End(o) ==
    /\ pc' = "done"
    /\ outcome' = o

\* ------------------------------------------------- session calls (shared)
\* try { client = new ServiceBusClient(...); receiver = client.createReceiver(q)
\* r = "ok": both return; "ctor": the constructor raises (client stays null);
\* "receiver": createReceiver raises (client is assigned).
OpenOutcomes == {"ok", "ctor", "receiver"}

\* How the provider may answer.  While it is flaky any call may succeed or
\* raise; when it is up every call succeeds; when it is down the client is
\* still built locally but every call that needs the namespace raises.
\* With a malformed connection string or namespace the client constructor
\* raises, with a missing queue name createReceiver does, on every attempt.
OpenAnswers ==
    IF ~configOk THEN {"ctor", "receiver"}
    ELSE IF provider = "up" THEN {"ok"}
    ELSE OpenOutcomes
CallAnswers ==
    IF provider = "up" THEN {TRUE}
    ELSE IF provider = "down" THEN {FALSE}
    ELSE BOOLEAN
CloseAnswers == IF provider = "up" THEN {TRUE} ELSE BOOLEAN

OpenSession(r, okPc, failPc) ==
    /\ client' = IF r = "ctor" THEN "null" ELSE "open"
    /\ sessions' = IF r = "ctor" THEN sessions ELSE sessions + 1
    /\ log' = IF r = "ctor" THEN log ELSE Append(log, Entry("open", 0, TRUE))
    /\ pc' = IF r = "ok" THEN okPc ELSE failPc
    /\ caught' = (r # "ok")

\* finally { if (client) await client.close().catch(...) }: a close that
\* raises is logged and swallowed.
CloseInFinally(ok) ==
    IF client = "open" THEN Append(log, Entry("close", 0, ok)) ELSE log

\* client.close() was already called by this handler.
ClientClosed == \E i \in 1..Len(log) : log[i].op = "close"

\* The handler holds a session: it built a client and has not closed it.
HoldsSession == client = "open" /\ ~ClientClosed

\* client.close() ends the handler's session, whether or not it raises.
SessionsAfterClose == IF HoldsSession THEN sessions - 1 ELSE sessions

\* ------------------------------------------------------------------ onSync
MutHostSyncsDrained == TRUE

\* Host policy: the host runs onSync at activation, on a configuration
\* change and after lifecycle.sync(); it runs no onSync on a drained block.
HostMaySync == status # "drained"

onSync_Begin ==
    /\ variant \in Subscription
    /\ HostMaySync
    /\ Begin("sync", "sOpen")
    /\ syncRequested' = FALSE
    /\ UNCHANGED <<pure, variant, configOk, provider, sessions, description, hostVars, kvVars, checkTime, outcome, queue, nextId>>

onSync_Open ==
    /\ handler = "sync" /\ pc = "sOpen"
    /\ \E r \in OpenAnswers : OpenSession(r, "sPeek", "sFinally")
    /\ UNCHANGED <<pure, thrown, variant, configOk, provider, description, hostVars, kvVars, clock, syncRequested, handler, startedAt,
                   checkTime, batch, idx, outcome, queue, nextId>>

MutPeekConsumes(q) == IF q = <<>> THEN q ELSE Tail(q)

\* The queue after peekMessages: peek neither locks nor removes.
AfterPeek(q) == q

\* How many messages peekMessages(1) hands back: none from an empty queue.
Peeked(q) == Min(1, Len(q))

\* await receiver.peekMessages(1): reads without locking or removing; the
\* result is not used.
onSync_Peek ==
    /\ handler = "sync" /\ pc = "sPeek"
    /\ \E ok \in CallAnswers :
        /\ log' = Append(log, Entry("peek", IF ok THEN Peeked(queue) ELSE 0, ok))
        /\ queue' = IF ok THEN AfterPeek(queue) ELSE queue
        /\ pc' = IF ok THEN "sReceiverClose" ELSE "sFinally"
        /\ caught' = ~ok
    /\ UNCHANGED <<pure, thrown, variant, configOk, provider, sessions, description, hostVars, kvVars, clock, syncRequested, handler, startedAt,
                   client, checkTime, batch, idx, outcome, nextId>>

\* await receiver.close(); the token version then returns ready.
onSync_ReceiverClose ==
    /\ handler = "sync" /\ pc = "sReceiverClose"
    /\ \E ok \in CloseAnswers :
        /\ log' = Append(log, Entry("rclose", 0, ok))
        /\ pc' = IF ok /\ variant = "conn" THEN "sClientClose" ELSE "sFinally"
        /\ caught' = ~ok
    /\ UNCHANGED <<pure, thrown, variant, configOk, provider, sessions, description, hostVars, kvVars, clock, syncRequested, handler, startedAt,
                   client, checkTime, batch, idx, outcome, queue, nextId>>

\* Connection-string version only: await client.close() inside the try,
\* then kv.block.getMany and return ready.
onSync_ClientClose ==
    /\ handler = "sync" /\ pc = "sClientClose"
    /\ variant = "conn"
    /\ \E ok \in CloseAnswers :
        /\ log' = Append(log, Entry("close", 0, ok))
        /\ caught' = ~ok
    /\ pc' = "sFinally"
    /\ sessions' = SessionsAfterClose
    /\ UNCHANGED <<pure, thrown, variant, configOk, provider, description, hostVars, kvVars, clock, syncRequested, handler, startedAt,
                   client, checkTime, batch, idx, outcome, queue, nextId>>

\* What the provider SDK raises: an Error, or an AggregateError wrapping
\* several Errors (a connection attempt that failed on every address).
Thrown == {"Error", "AggregateError"}

\* The catch block's customStatusDescription for the error e.  The
\* connection-string version shows error.message of any Error; the token
\* version joins the messages of an AggregateError's inner errors.
StatusDescription(v, e) ==
    IF v = "token" /\ e = "AggregateError" THEN "AggregateError: messages"
    ELSE IF e \in {"Error", "AggregateError"} THEN "message"
    ELSE "Connection failed"

MutStatusRemembersPollError ==
    IF caught \/ outcome \in {"error", "raised"} THEN "failed" ELSE "ready"

\* newStatus of the onSync result: "failed" from the catch block, else "ready".
NewStatus == IF caught THEN "failed" ELSE "ready"

\* finally, then the host applies the returned newStatus / signalUpdates.
\* The connection-string version returns the stored timestamps as signals
\* with "ready"; "failed" carries no signalUpdates.
onSync_Finally ==
    /\ handler = "sync" /\ pc = "sFinally"
    /\ \E ok \in CloseAnswers : log' = CloseInFinally(ok)
    /\ status' = NewStatus
    /\ \E e \in Thrown :
        description' = IF caught THEN StatusDescription(variant, e) ELSE "none"
    /\ sigCheck' = IF ~caught /\ variant = "conn" THEN kvCheck ELSE sigCheck
    /\ sigRecv' = IF ~caught /\ variant = "conn" THEN kvRecv ELSE sigRecv
    /\ End(NewStatus)
    /\ sessions' = SessionsAfterClose
    /\ UNCHANGED <<pure, thrown, variant, configOk, provider, kvVars, clock, syncRequested, handler, startedAt, localVars,
                   queue, nextId>>

\* ----------------------------------------------------------------- onDrain
MutDrainKeeps(v) == v

\* kv.block.delete([key]): the key is absent afterwards.
AfterDelete(v) == Null

\* The connection-string version deletes both keys and nulls both signals.
onDrain ==
    /\ variant \in Subscription
    /\ status # "drained"
    /\ Begin("drain", "done")
    /\ kvCheck' = IF variant = "conn" THEN AfterDelete(kvCheck) ELSE kvCheck
    /\ kvRecv' = IF variant = "conn" THEN AfterDelete(kvRecv) ELSE kvRecv
    /\ sigCheck' = IF variant = "conn" THEN Null ELSE sigCheck
    /\ sigRecv' = IF variant = "conn" THEN Null ELSE sigRecv
    /\ status' = "drained"
    /\ outcome' = "drained"
    /\ UNCHANGED <<pure, variant, configOk, provider, sessions, description, syncRequested, checkTime, queue, nextId>>

\* ------------------------------------------------ schedules.poll.onTrigger
\* Host policy: the scheduler fires the poll schedule once the block has been
\* activated, that is after the first onSync has set a status.
HostMayTrigger == status # "init"

MutNoRecoverySync == <<>>
MutRecoveryAlsoReceives == <<Entry("sync", 0, TRUE), Entry("receive", 0, TRUE)>>

\* What a trigger that finds the block failed calls before it returns.
RecoveryCalls == SyncCall

\* if (status === "failed") { await lifecycle.sync(); return; }
onTrigger_Failed ==
    /\ variant \in Subscription
    /\ HostMayTrigger
    /\ status = "failed"
    /\ Start("trigger", "done", RecoveryCalls)
    /\ syncRequested' = (syncRequested \/ RecoveryCalls # <<>>)
    /\ outcome' = "reprobe"
    /\ UNCHANGED <<pure, variant, configOk, provider, sessions, description, hostVars, kvVars, checkTime, queue, nextId>>

MutPollsUnlessFailed(st) == st # "failed"

\* The status guard a trigger passes to poll: it returns unless the status
\* is ready.
PollsWhen(st) == st = "ready"

\* if (status !== "ready") return;
onTrigger_Skip ==
    /\ variant \in Subscription
    /\ HostMayTrigger
    /\ status # "failed"
    /\ ~PollsWhen(status)
    /\ Begin("trigger", "done")
    /\ outcome' = "skipped"
    /\ UNCHANGED <<pure, variant, configOk, provider, sessions, description, hostVars, kvVars, syncRequested, checkTime, queue,
                   nextId>>

\* status is ready: const checkTime = new Date().toISOString(); client = null
\* (the token version keeps no checkTime).
onTrigger_Poll ==
    /\ variant \in Subscription
    /\ HostMayTrigger
    /\ status # "failed"
    /\ PollsWhen(status)
    /\ Begin("trigger", "open")
    /\ checkTime' = IF variant = "conn" THEN clock' ELSE checkTime
    /\ UNCHANGED <<pure, variant, configOk, provider, sessions, description, hostVars, kvVars, syncRequested, outcome, queue,
                   nextId>>

Poll_Open ==
    /\ handler = "trigger" /\ pc = "open"
    /\ \E r \in OpenAnswers : OpenSession(r, "receive", "catch")
    /\ UNCHANGED <<pure, thrown, variant, configOk, provider, description, hostVars, kvVars, clock, syncRequested, handler, startedAt,
                   checkTime, batch, idx, outcome, queue, nextId>>

\* The count handed to receiveMessages.
RequestedCount == MaxBatch

\* What receiveMessages(n) may return: any prefix of the queue of at most n
\* messages (none when the wait times out).
Receivable(n) == {SubSeq(queue, 1, k) : k \in 0..Min(n, Len(queue))}

\* await receiver.receiveMessages(maxMessages, {maxWaitTimeInMs}); the wait
\* may take the clock forward.
Poll_Receive ==
    /\ handler = "trigger" /\ pc = "receive"
    /\ \/ /\ TRUE \in CallAnswers
          /\ \E b \in Receivable(RequestedCount) :
                /\ batch' = b
                /\ log' = Append(log, Entry("receive", Len(b), TRUE))
                /\ pc' = IF variant = "conn" THEN "record"
                         ELSE IF b = <<>> THEN "receiverClose" ELSE "complete"
          /\ \E d \in {0, 1} : clock + d <= MaxClock /\ clock' = clock + d
          /\ UNCHANGED caught
       \/ /\ FALSE \in CallAnswers
          /\ log' = Append(log, Entry("receive", 0, FALSE))
          /\ pc' = "catch"
          /\ caught' = TRUE
          /\ UNCHANGED <<batch, clock>>
    /\ UNCHANGED <<pure, thrown, variant, configOk, provider, sessions, description, hostVars, kvVars, syncRequested, handler, startedAt, client,
                   checkTime, idx, outcome, queue, nextId>>

\* Connection-string version: kv.block.set(lastCheckTime, checkTime); if the
\* batch is not empty, kv.block.set(lastMessageReceivedTime, new Date()).
MutReceiveTimeAlways == clock

\* if (receivedMessages.length > 0) set lastMessageReceivedTime = new Date()
ReceiveTimeAfter == IF Len(batch) > 0 THEN clock ELSE kvRecv

Poll_RecordTimes ==
    /\ handler = "trigger" /\ pc = "record"
    /\ kvCheck' = checkTime
    /\ kvRecv' = ReceiveTimeAfter
    /\ pc' = IF batch = <<>> THEN "receiverClose" ELSE "complete"
    /\ UNCHANGED <<pure, thrown, variant, configOk, provider, sessions, description, hostVars, clock, syncRequested, handler, startedAt, localVars,
                   outcome, log, queue, nextId>>

MutAckBeforeNorm(m, ok) == <<Entry("ack", m, ok), Entry("norm", m, TRUE)>>
MutAcksTwice(m, ok) == <<Entry("norm", m, TRUE), Entry("ack", m, ok), Entry("ack", m, ok)>>

\* The calls of one loop iteration up to the first await that can raise:
\* parsedMessage = parseMessage(message); await receiver.completeMessage(message)
LoopHead(m, ok) == <<Entry("norm", m, TRUE), Entry("ack", m, ok)>>

MutAckFailureSwallowed == "emit"

\* completeMessage raised: the error leaves the loop for the catch block.
AfterAckFailure == "catch"

Poll_Complete ==
    /\ handler = "trigger" /\ pc = "complete"
    /\ \E ok \in CallAnswers :
        /\ log' = log \o LoopHead(batch[idx], ok)
        /\ queue' = IF ok THEN Without(queue, batch[idx]) ELSE queue
        /\ pc' = IF ok THEN "emit" ELSE AfterAckFailure
        /\ caught' = (~ok /\ AfterAckFailure = "catch")
    /\ UNCHANGED <<pure, thrown, variant, configOk, provider, sessions, description, hostVars, kvVars, clock, syncRequested, handler, startedAt,
                   client, checkTime, batch, idx, outcome, nextId>>

\* Where the handler goes when events.emit raised.
AfterEmitFailure == "catch"

\* await events.emit(parsedMessage), then the next iteration.
Poll_Emit ==
    /\ handler = "trigger" /\ pc = "emit"
    /\ \E ok \in BOOLEAN :
        /\ log' = Append(log, Entry("emit", batch[idx], ok))
        /\ IF ok
           THEN /\ idx' = idx + 1
                /\ pc' = IF idx < Len(batch) THEN "complete" ELSE "receiverClose"
                /\ UNCHANGED caught
           ELSE /\ pc' = AfterEmitFailure
                /\ caught' = TRUE
                /\ UNCHANGED idx
    /\ UNCHANGED <<pure, thrown, variant, configOk, provider, sessions, description, hostVars, kvVars, clock, syncRequested, handler, startedAt,
                   client, checkTime, batch, outcome, queue, nextId>>

\* await receiver.close() at the end of the try block.
Poll_ReceiverClose ==
    /\ handler = "trigger" /\ pc = "receiverClose"
    /\ \E ok \in CloseAnswers :
        /\ log' = Append(log, Entry("rclose", 0, ok))
        /\ pc' = IF ok THEN "finally" ELSE "catch"
        /\ caught' = ~ok
    /\ UNCHANGED <<pure, thrown, variant, configOk, provider, sessions, description, hostVars, kvVars, clock, syncRequested, handler, startedAt,
                   client, checkTime, batch, idx, outcome, queue, nextId>>

\* catch: the connection-string version logs, sets lastCheckTime again and
\* calls lifecycle.sync(); the token version calls lifecycle.sync() and
\* rethrows.
MutCatchKeepsCheckTime == kvCheck

\* catch (connection-string version): kv.block.set(lastCheckTime, checkTime)
CheckTimeAfterCatch == IF variant = "conn" THEN checkTime ELSE kvCheck

MutCatchNoSync == <<>>

\* The value bound by `catch (error)`: the rejection of the call of the try
\* block that raised, which is the last call made.
Raised ==
    IF client = "null" THEN "ctor"
    ELSE IF log[Len(log)].ok THEN "createReceiver"
    ELSE log[Len(log)].op

\* The end of the catch block: the token version has `throw error`, the
\* connection-string version falls through.
Rethrown(v, e) == IF v = "token" THEN e ELSE "none"

\* catch: await lifecycle.sync() ("Trigger sync to update status to failed")
CatchCalls == SyncCall

Poll_Catch ==
    /\ handler = "trigger" /\ pc = "catch"
    /\ kvCheck' = CheckTimeAfterCatch
    /\ log' = log \o CatchCalls
    /\ syncRequested' = (syncRequested \/ CatchCalls # <<>>)
    /\ thrown' = Rethrown(variant, Raised)
    /\ pc' = "finally"
    /\ UNCHANGED <<pure, variant, configOk, provider, sessions, description, hostVars, kvRecv, clock, handler, startedAt, localVars,
                   outcome, queue, nextId>>

MutCatchRethrows(v) == "raised"

\* How a cycle whose catch block ran ends: the connection-string version
\* falls out of the catch and returns, the token version ends its catch
\* with `throw error`.
CatchEnds(v) == IF v = "conn" THEN "error" ELSE "raised"

MutCloseErrorEscapes(ok) == IF client = "open" /\ ~ok THEN "close" ELSE thrown

\* client.close().catch((err) => console.error(...)): a close that raises is
\* handled on the spot, so the exception pending from the catch block stays.
PendingAfterClose(ok) == thrown

\* finally: close the client; the handler returns, or (token version, after
\* the catch) raises to the host.
Poll_Finally ==
    /\ handler = "trigger" /\ pc = "finally"
    /\ \E ok \in CloseAnswers :
        /\ log' = CloseInFinally(ok)
        /\ thrown' = PendingAfterClose(ok)
    /\ End(IF ~caught THEN "ok" ELSE CatchEnds(variant))
    /\ sessions' = SessionsAfterClose
    /\ UNCHANGED <<pure, variant, configOk, provider, description, hostVars, kvVars, clock, syncRequested, handler, startedAt,
                   localVars, queue, nextId>>

\* ------------------------------------------- Queue Reader: inputs.default.onEvent
onEvent_Begin ==
    /\ variant = "reader"
    /\ Begin("event", "rOpen")
    /\ checkTime' = clock'
    /\ UNCHANGED <<pure, variant, configOk, provider, sessions, description, hostVars, kvVars, syncRequested, outcome, queue,
                   nextId>>

Reader_Open ==
    /\ handler = "event" /\ pc = "rOpen"
    /\ \E r \in OpenAnswers : OpenSession(r, "rReceive", "rCatch")
    /\ UNCHANGED <<pure, thrown, variant, configOk, provider, description, hostVars, kvVars, clock, syncRequested, handler, startedAt,
                   checkTime, batch, idx, outcome, queue, nextId>>

MutReaderReceivesBatch == MaxBatch

\* receiveMessages(1, ...): "Read one message per received event."
ReaderCount == 1

\* await receiver.receiveMessages(1, {maxWaitTimeInMs: 1000})
Reader_Receive ==
    /\ handler = "event" /\ pc = "rReceive"
    /\ \/ \E b \in Receivable(ReaderCount) :
            /\ TRUE \in CallAnswers
            /\ batch' = b
            /\ log' = Append(log, Entry("receive", Len(b), TRUE))
            /\ pc' = IF b = <<>> THEN "rReceiverClose" ELSE "rComplete"
            /\ UNCHANGED caught
       \/ /\ FALSE \in CallAnswers
          /\ log' = Append(log, Entry("receive", 0, FALSE))
          /\ pc' = "rCatch"
          /\ caught' = TRUE
          /\ UNCHANGED batch
    /\ UNCHANGED <<pure, thrown, variant, configOk, provider, sessions, description, hostVars, kvVars, clock, syncRequested, handler, startedAt,
                   client, checkTime, idx, outcome, queue, nextId>>

\* parsedMessage = parseMessage(receivedMessages[0]);
\* await receiver.completeMessage(receivedMessages[0])
Reader_Complete ==
    /\ handler = "event" /\ pc = "rComplete"
    /\ \E ok \in CallAnswers :
        /\ log' = log \o LoopHead(batch[1], ok)
        /\ queue' = IF ok THEN Without(queue, batch[1]) ELSE queue
        /\ pc' = IF ok THEN "rReceiverClose" ELSE "rCatch"
        /\ caught' = ~ok
    /\ UNCHANGED <<pure, thrown, variant, configOk, provider, sessions, description, hostVars, kvVars, clock, syncRequested, handler, startedAt,
                   client, checkTime, batch, idx, outcome, nextId>>

Reader_ReceiverClose ==
    /\ handler = "event" /\ pc = "rReceiverClose"
    /\ \E ok \in CloseAnswers :
        /\ log' = Append(log, Entry("rclose", 0, ok))
        /\ pc' = IF ok THEN "rEmit" ELSE "rCatch"
        /\ caught' = ~ok
    /\ UNCHANGED <<pure, thrown, variant, configOk, provider, sessions, description, hostVars, kvVars, clock, syncRequested, handler, startedAt,
                   client, checkTime, batch, idx, outcome, queue, nextId>>

\* await events.emit({status: "connected", checkedAt, message: parsedMessage});
\* m = 0 stands for message: null.
Reader_EmitConnected ==
    /\ handler = "event" /\ pc = "rEmit"
    /\ \E ok \in BOOLEAN :
        /\ log' = Append(log, Entry("emitConnected",
                                    IF batch = <<>> THEN 0 ELSE batch[1], ok))
        /\ pc' = IF ok THEN "rFinally" ELSE "rCatch"
        /\ caught' = ~ok
    /\ UNCHANGED <<pure, thrown, variant, configOk, provider, sessions, description, hostVars, kvVars, clock, syncRequested, handler, startedAt,
                   client, checkTime, batch, idx, outcome, queue, nextId>>

\* catch: await events.emit({status: "error", checkedAt, message: null}); if
\* this emit raises, the error leaves the handler after the finally block.
Reader_Catch ==
    /\ handler = "event" /\ pc = "rCatch"
    /\ \E ok \in BOOLEAN :
        /\ log' = Append(log, Entry("emitError", 0, ok))
        /\ thrown' = IF ok THEN "none" ELSE "emitError"
    /\ pc' = "rFinally"
    /\ UNCHANGED <<pure, variant, configOk, provider, sessions, description, hostVars, kvVars, clock, syncRequested, handler, startedAt,
                   localVars, outcome, queue, nextId>>

\* finally { if (client) await client.close().catch(() => {}) }
Reader_Finally ==
    /\ handler = "event" /\ pc = "rFinally"
    /\ \E ok \in CloseAnswers : log' = CloseInFinally(ok)
    /\ End(IF \E i \in 1..Len(log) : log[i].op = "emitError" /\ ~log[i].ok
           THEN "raised"
           ELSE IF caught THEN "error" ELSE "connected")
    /\ sessions' = SessionsAfterClose
    /\ UNCHANGED <<pure, thrown, variant, configOk, provider, description, hostVars, kvVars, clock, syncRequested, handler, startedAt,
                   localVars, queue, nextId>>

\* ------------------------------------------------------------ specification
Next ==
    \/ Enqueue
    \/ onSync_Begin
    \/ onSync_Open
    \/ onSync_Peek
    \/ onSync_ReceiverClose
    \/ onSync_ClientClose
    \/ onSync_Finally
    \/ onDrain
    \/ onTrigger_Failed
    \/ onTrigger_Skip
    \/ onTrigger_Poll
    \/ Poll_Open
    \/ Poll_Receive
    \/ Poll_RecordTimes
    \/ Poll_Complete
    \/ Poll_Emit
    \/ Poll_ReceiverClose
    \/ Poll_Catch
    \/ Poll_Finally
    \/ onEvent_Begin
    \/ Reader_Open
    \/ Reader_Receive
    \/ Reader_Complete
    \/ Reader_ReceiverClose
    \/ Reader_EmitConnected
    \/ Reader_Catch
    \/ Reader_Finally

Spec == Init /\ [][Next]_vars

\* ------------------------------------------------- specification with fairness
\* From some point on the provider stops being flaky: it stays up, or down.
Settle ==
    /\ provider = "flaky"
    /\ provider' \in (IF configOk THEN {"up", "down"} ELSE {"down"})
    /\ UNCHANGED <<pure, thrown, variant, configOk, sessions, status, description, sigCheck, sigRecv, kvCheck,
                   kvRecv, clock, syncRequested, handler, pc, startedAt, client,
                   checkTime, batch, idx, caught, outcome, log, queue, nextId>>

\* A handler that has started runs to its return.
HandlerStep ==
    \/ onSync_Open \/ onSync_Peek \/ onSync_ReceiverClose \/ onSync_ClientClose
    \/ onSync_Finally
    \/ Poll_Open \/ Poll_Receive \/ Poll_RecordTimes \/ Poll_Complete \/ Poll_Emit
    \/ Poll_ReceiverClose \/ Poll_Catch \/ Poll_Finally
    \/ Reader_Open \/ Reader_Receive \/ Reader_Complete \/ Reader_ReceiverClose
    \/ Reader_EmitConnected \/ Reader_Catch \/ Reader_Finally

\* The scheduler fires the poll schedule of an activated block again and again.
ScheduledTrigger == onTrigger_Failed \/ onTrigger_Skip \/ onTrigger_Poll

\* The host serves every lifecycle.sync() request: it runs onSync between two
\* handlers, however often the schedule fires.
RequestedSync == syncRequested /\ onSync_Begin

LiveNext == Next \/ Settle

LiveSpec ==
    /\ Init
    /\ [][LiveNext]_vars
    /\ WF_vars(HandlerStep)
    /\ WF_vars(ScheduledTrigger)
    /\ SF_vars(RequestedSync)

\* ------------------------------------------------ helper functions on their own
\* `x || d` on an optional number: undefined and 0 give the default.
OrDefault(x, d) == IF x = Null THEN d ELSE x

\* Values of the block's optional maxMessages configuration field.
MaxMessagesConfigs == {Null, 1, DefaultMaxMessages, ReceiveCeiling,
                       ReceiveCeiling + 1, 5000}

\* The count handed to receiveMessages.  The connection-string version
\* passes `maxMessages || 10`, the token version Math.min(that, 2047).
MaxMessagesPassed(v, cfg) ==
    IF v = "token"
    THEN Min(OrDefault(cfg, DefaultMaxMessages), ReceiveCeiling)
    ELSE OrDefault(cfg, DefaultMaxMessages)

\* Token version's onSync: console.log("... will be truncated to 2047") when
\* maxMessages !== undefined && maxMessages > 2047.
WarnsTruncation(v, cfg) == v = "token" /\ cfg # Null /\ cfg > ReceiveCeiling

Apply_maxMessages ==
    /\ pure = NoCall
    /\ variant \in Subscription
    /\ \E cfg \in MaxMessagesConfigs :
        pure' = [fn |-> "maxMessages", arg |-> cfg,
                 res |-> [count |-> MaxMessagesPassed(variant, cfg),
                          warned |-> WarnsTruncation(variant, cfg)]]
    /\ UNCHANGED handlerVars

\* `|| 5`: the default receiveTimeoutSeconds; maxWaitTimeInMs is in
\* milliseconds.
DefaultTimeoutSeconds == 5
MsPerSecond == 1000

\* Values of the block's two optional number fields: unset (or 0, which `||`
\* treats alike), negative, and positive ones.
CountConfigs == {Null, -1, 1, DefaultMaxMessages, 3000}
TimeoutConfigs == {Null, -5, 1, DefaultTimeoutSeconds, 60}

\* maxWaitTimeInMs: receiveTimeoutSeconds * 1000, with
\* receiveTimeoutSeconds = (config.receiveTimeoutSeconds as number) || 5.
MaxWaitTimeInMs(cfg) == OrDefault(cfg, DefaultTimeoutSeconds) * MsPerSecond

\* The two arguments of receiver.receiveMessages in a poll cycle.
Apply_receiveArgs ==
    /\ pure = NoCall
    /\ variant \in Subscription
    /\ \E m \in CountConfigs, t \in TimeoutConfigs :
        pure' = [fn |-> "receiveArgs",
                 arg |-> [maxMessages |-> m, receiveTimeoutSeconds |-> t],
                 res |-> [count |-> MaxMessagesPassed(variant, m),
                          maxWaitTimeInMs |-> MaxWaitTimeInMs(t)]]
    /\ UNCHANGED handlerVars

\* JavaScript values, each a record of its type and its text.
Undefined == [type |-> "undefined", v |-> ""]
Str(s) == [type |-> "string", v |-> s]
Buf(s) == [type |-> "buffer", v |-> s]

\* Texts a body may hold: some are valid JSON, some are not.
JsonTexts == {"[1]", "42", "null", "true", "\"hi\""}
OtherTexts == {"hello", "", "[1"}
Texts == JsonTexts \cup OtherTexts

\* The value JSON.parse returns for a valid JSON text.
JsonValue(t) ==
    CASE t = "[1]" -> [type |-> "array", v |-> t]
      [] t = "42" -> [type |-> "number", v |-> t]
      [] t = "null" -> [type |-> "null", v |-> t]
      [] t = "true" -> [type |-> "boolean", v |-> t]
      [] t = "\"hi\"" -> Str("hi")

\* JSON.parse(x): raises on anything but a valid JSON text (undefined
\* included, which it reads as the text "undefined").
JSON_parse(x) ==
    IF x.type = "string" /\ x.v \in JsonTexts
    THEN [ok |-> TRUE, val |-> JsonValue(x.v)]
    ELSE [ok |-> FALSE, val |-> Undefined]

\* JSON.stringify(x) of a structured value is its JSON text, of undefined it
\* is undefined; parseMessage calls it on no string and on no Buffer.
JSON_stringify(x) == IF x.type = "undefined" THEN Undefined ELSE Str(x.v)

\* message.body as the SDK hands it over: a string, a Buffer, an already
\* decoded value, or nothing.
Bodies ==
    {Str(t) : t \in Texts} \cup {Buf(t) : t \in Texts}
        \cup {JsonValue(t) : t \in JsonTexts} \cup {Undefined}

\* rawBody: the body as a string (connection-string version and Queue Reader).
RawBody(b) ==
    IF b.type = "string" THEN b
    ELSE IF b.type = "buffer" THEN Str(b.v)
    ELSE JSON_stringify(b)

\* try { body = JSON.parse(rawBody) } catch { body = rawBody }
ParsedBody(raw) ==
    LET r == JSON_parse(raw) IN IF r.ok THEN r.val ELSE raw

\* The token version only turns a Buffer into its UTF-8 string.
DecodedBody(b) == IF b.type = "buffer" THEN Str(b.v) ELSE b

MutKeepsAbsent(x) == x

\* `x || ""`: an absent or empty property becomes the empty string.
OrEmpty(x) == IF x.type = "undefined" \/ x = Str("") THEN Str("") ELSE x

\* `x?.toISOString() || ""` and `x?.toString() || ""`: the text of a Date or
\* of a Long when present, else the empty string.
TextOrEmpty(x) == IF x.type = "undefined" THEN Str("") ELSE OrEmpty(Str(x.v))

\* `message.applicationProperties || {}`
OrEmptyMap(x) == IF x.type = "undefined" THEN [type |-> "object", v |-> "{}"] ELSE x

\* The optional fields of a received message, each absent or present.
Optional(x) == {Undefined, x}
Messages ==
    [body : Bodies,
     messageId : Optional(Str("id-1")),
     enqueuedTimeUtc : Optional([type |-> "date", v |-> "2024-05-01T10:00:00.000Z"]),
     sequenceNumber : Optional([type |-> "long", v |-> "9007199254740993"]),
     contentType : Optional(Str("application/json")),
     correlationId : Optional(Str("c-1")),
     applicationProperties : Optional([type |-> "object", v |-> "{k:1}"])]

\* parseMessage(message) of the three blocks; hasRaw says whether the record
\* has a rawBody field.
parseMessage(v, msg) ==
    [body |-> IF v = "token" THEN DecodedBody(msg.body)
              ELSE ParsedBody(RawBody(msg.body)),
     hasRaw |-> v # "token",
     rawBody |-> IF v = "token" THEN Undefined ELSE RawBody(msg.body),
     messageId |-> OrEmpty(msg.messageId),
     enqueuedTime |-> TextOrEmpty(msg.enqueuedTimeUtc),
     sequenceNumber |-> TextOrEmpty(msg.sequenceNumber),
     contentType |-> OrEmpty(msg.contentType),
     correlationId |-> OrEmpty(msg.correlationId),
     applicationProperties |-> OrEmptyMap(msg.applicationProperties)]

Apply_parseMessage ==
    /\ pure = NoCall
    /\ \E msg \in Messages :
        pure' = [fn |-> "parseMessage", arg |-> msg,
                 res |-> parseMessage(variant, msg)]
    /\ UNCHANGED handlerVars

\* An optional number of the app configuration (`accessTokenExpiry?: number`);
\* `??` tells a supplied 0 from an absent value.
NotSupplied == [given |-> FALSE, n |-> 0]
Supplied(n) == [given |-> TRUE, n |-> n]

\* Instants in milliseconds, and the app configurations tried.
Instants == {0, OneHourMs, 2 * OneHourMs}
AppConfigs ==
    [accessToken : {"token-A", "token-B"},
     accessTokenExpiry : {NotSupplied} \cup {Supplied(n) : n \in {0, 3 * OneHourMs}}]

MutExpiresNow(now) == now

\* `Date.now() + 3600000`, with now the reading of the clock when the
\* client is created.
DefaultExpiry(now) == now + OneHourMs

\* createServiceBusClient(config) called at `now`: the StaticTokenCredential
\* it hands to the ServiceBusClient.
createServiceBusClient(config, now) ==
    [token |-> config.accessToken,
     expiresOnTimestamp |->
        IF config.accessTokenExpiry.given THEN config.accessTokenExpiry.n
        ELSE DefaultExpiry(now)]

\* StaticTokenCredential.getToken(scopes, options): the stored pair, whatever
\* the scopes.
getToken(credential) ==
    [token |-> credential.token,
     expiresOnTimestamp |-> credential.expiresOnTimestamp]

\* A token issued at issuedAt is configured; a session is opened at now.
Apply_getToken ==
    /\ pure = NoCall
    /\ variant = "token"
    /\ \E config \in AppConfigs, issuedAt \in Instants, now \in Instants :
        /\ issuedAt <= now
        /\ pure' = [fn |-> "getToken",
                    arg |-> [config |-> config, issuedAt |-> issuedAt, now |-> now],
                    res |-> getToken(createServiceBusClient(config, now))]
    /\ UNCHANGED handlerVars

PureNext ==
    \/ Apply_maxMessages
    \/ Apply_receiveArgs
    \/ Apply_parseMessage
    \/ Apply_getToken

PureSpec == Init /\ [][PureNext]_vars

\* ------------------------------------------------------ reading the call log
IsAckOk(e) == e.op = "ack" /\ e.ok
IsEmitOk(e) == e.op = "emit" /\ e.ok
IsAck(e) == e.op = "ack"
IsEmit(e) == e.op = "emit"
IsOpen(e) == e.op = "open"
IsClose(e) == e.op = "close"

RECURSIVE Ids(_)
Ids(s) == IF s = <<>> THEN <<>> ELSE <<Head(s).m>> \o Ids(Tail(s))

\* Messages whose completeMessage returned, in call order.
Acked == Ids(SelectSeq(log, IsAckOk))
\* Messages whose events.emit returned, in call order.
Emitted == Ids(SelectSeq(log, IsEmitOk))
AckAttempts == Ids(SelectSeq(log, IsAck))
EmitAttempts == Ids(SelectSeq(log, IsEmit))
Opens == Len(SelectSeq(log, IsOpen))
Closes == Len(SelectSeq(log, IsClose))

Failed(op) == \E j \in 1..Len(log) : log[j].op = op /\ ~log[j].ok
Received == \E j \in 1..Len(log) : log[j].op = "receive" /\ log[j].ok
AckFailedAt(i) == \E j \in 1..Len(log) : log[j] = Entry("ack", batch[i], FALSE)

\* A poll cycle (a trigger that found the block ready) has finished.
CycleDone ==
    /\ handler = "trigger"
    /\ pc = "done"
    /\ outcome \in {"ok", "error", "raised"}

CycleError == outcome \in {"error", "raised"}

\* lifecycle.sync() calls of the current handler.
IsSync(e) == e.op = "sync"
SyncCalls == Len(SelectSeq(log, IsSync))

\* -------------------------------------------------------------------- claims

\* C1: at the end of any poll cycle the acknowledged messages and the emitted
\* messages are the same: every message whose completeMessage returned was
\* emitted exactly once.  The code acknowledges before it emits and leaves the
\* loop when events.emit raises, so this is violated.
C1_AckedAreEmitted == CycleDone => Acked = Emitted

\* C2: when acknowledgment fails on message i of the batch, exactly the first
\* i-1 messages were emitted, message i and the later ones are neither emitted
\* nor acknowledged, the cycle ends in error (with a re-probe requested) and
\* the stored lastCheckTime is the cycle's time.
C2_AckFailureAbortsBatch ==
    \A i \in 1..Len(batch) :
        (CycleDone /\ AckFailedAt(i)) =>
            /\ Emitted = SubSeq(batch, 1, i - 1)
            /\ EmitAttempts = SubSeq(batch, 1, i - 1)
            /\ Acked = SubSeq(batch, 1, i - 1)
            /\ AckAttempts = SubSeq(batch, 1, i)
            /\ CycleError
            /\ syncRequested
            /\ variant = "conn" => kvCheck = startedAt

\* C2 witness: the second acknowledgment of a batch of two failed after the
\* first message was emitted.
C2_Witness ==
    /\ CycleDone
    /\ variant = "conn"
    /\ Len(batch) = 2
    /\ AckFailedAt(2)
    /\ Emitted = <<batch[1]>>

\* C3: a poll cycle that receives k >= 1 messages and acknowledges all k emits
\* exactly those k messages in receipt order and has stored both timestamps.
\* Violated: the emit of the last acknowledged message can raise.
C3_AllAckedAllEmitted ==
    (CycleDone /\ variant = "conn" /\ Len(batch) >= 1 /\ Acked = batch) =>
        /\ Emitted = batch
        /\ kvCheck = startedAt
        /\ kvRecv >= startedAt

\* C4: within a poll cycle the calls are interleaved per message in receipt
\* order: normalize n, acknowledge n, emit n; an emit directly follows the
\* successful acknowledgment of the same message, and the acknowledgment of
\* message n+1 comes only after the emit of message n returned.
C4_PerMessageOrder ==
    handler = "trigger" =>
        /\ \A j \in 1..Len(log) :
            /\ log[j].op = "norm" =>
                 /\ j < Len(log)
                 /\ log[j + 1].op = "ack" /\ log[j + 1].m = log[j].m
            /\ log[j].op = "ack" =>
                 /\ j > 1
                 /\ log[j - 1] = Entry("norm", log[j].m, TRUE)
            /\ log[j].op = "emit" =>
                 /\ j > 1
                 /\ log[j - 1] = Entry("ack", log[j].m, TRUE)
        /\ \A n \in 1..Len(AckAttempts) :
            /\ AckAttempts[n] = batch[n]
            /\ n > 1 => (Len(Emitted) >= n - 1 /\ Emitted[n - 1] = batch[n - 1])
        /\ \A n \in 1..Len(EmitAttempts) : EmitAttempts[n] = batch[n]

\* C4 witness: a cycle took two messages through normalize, acknowledge, emit.
C4_Witness ==
    /\ CycleDone
    /\ Len(batch) = 2
    /\ Emitted = batch

\* C5: a failure of events.emit on one message does not stop the batch: as
\* long as no acknowledgment (and no receiver close) failed, every received
\* message is acknowledged and handed to the sink and the cycle ends ok.
\* Violated: the code leaves the loop for the catch block when emit raises.
C5_EmitFailureDoesNotAbort ==
    (CycleDone /\ Received /\ ~Failed("ack") /\ ~Failed("rclose")) =>
        /\ Acked = batch
        /\ EmitAttempts = batch
        /\ outcome = "ok"

\* C6: every session a handler opened is closed exactly once by the time the
\* handler has finished.  Violated: the connection-string onSync closes the
\* client in the try block and again in the finally block.
C6_ClosedExactlyOnce ==
    (pc = "done" /\ handler \in {"sync", "trigger", "event"}) => Closes = Opens

\* C7: every invocation of the poll trigger on a block that is not drained
\* leaves the stored lastCheckTime equal to the time of that invocation.
\* Violated as stated: a trigger that finds the block failed only requests a
\* re-probe and writes nothing.
C7_EveryTriggerUpdatesCheckTime ==
    (variant = "conn" /\ handler = "trigger" /\ pc = "done" /\ status # "drained")
        => kvCheck = startedAt

\* C7 (amended): every poll attempt, that is every invocation of the poll
\* trigger on a block whose status is ready, whether it ends ok or in error,
\* leaves the stored lastCheckTime equal to that attempt's time.
C7_PollUpdatesCheckTime ==
    (variant = "conn" /\ handler = "trigger" /\ pc = "done" /\ status = "ready")
        => (kvCheck = startedAt /\ outcome \in {"ok", "error"})

\* C7 witness: a later poll attempt failed before receive returned and still
\* stored its own time.
C7_Witness ==
    /\ variant = "conn"
    /\ CycleDone
    /\ outcome = "error"
    /\ ~Received
    /\ kvCheck = startedAt
    /\ startedAt > 1

\* C8: after a poll cycle (and any re-probe it asked for) the signals the
\* host shows equal the stored timestamps.  Violated: signals change only in
\* what onSync returns, and a cycle that ends ok asks for no onSync.
C8_SignalsFollowStore ==
    (variant = "conn" /\ CycleDone /\ ~syncRequested) =>
        (sigCheck = kvCheck /\ sigRecv = kvRecv)

\* C9: a poll cycle whose receive returned no message ends ok, attempts no
\* acknowledgment and no emit, stores the cycle's time as lastCheckTime and
\* does not write lastMessageReceivedTime.  Violated: receiver.close() at the
\* end of the try block can raise, and then the cycle ends in error.
C9_EmptyQueueCycle ==
    (variant = "conn" /\ CycleDone /\ Received /\ batch = <<>>) =>
        /\ outcome = "ok"
        /\ AckAttempts = <<>>
        /\ EmitAttempts = <<>>
        /\ kvCheck = startedAt
        /\ kvRecv < startedAt

\* A poll cycle stores lastMessageReceivedTime after a receive of >= 1 message.
PollRecordsReceipt == handler = "trigger" /\ pc = "record" /\ Len(batch) > 0

\* C10: only a poll cycle whose receive returned at least one message changes
\* the stored lastMessageReceivedTime; every other step leaves it unchanged.
\* Violated as stated: onDrain deletes the key.
C10_OnlyPollWritesReceived ==
    [][kvRecv' # kvRecv => PollRecordsReceipt]_vars

\* C10 (amended): the stored lastMessageReceivedTime is written only by a poll
\* cycle whose receive returned at least one message; every other operation
\* leaves it unchanged, except onDrain, which deletes it.
C10_OnlyPollOrDrainChangesReceived ==
    [][kvRecv' # kvRecv =>
        \/ PollRecordsReceipt /\ kvRecv' = clock
        \/ handler' = "drain" /\ status' = "drained" /\ kvRecv' = Null]_vars

\* C10 witness: a cycle that received nothing left an earlier cycle's
\* lastMessageReceivedTime in the store.
C10_Witness ==
    /\ variant = "conn"
    /\ CycleDone
    /\ Received
    /\ batch = <<>>
    /\ kvRecv # Null
    /\ kvRecv < startedAt

\* C11: a poll cycle whose session could not be opened or whose receive call
\* raised ends in error, has attempted no acknowledgment and no emit, has
\* removed nothing from the queue and has called lifecycle.sync() once.
C11_ReceiveFailureEndsInError ==
    (CycleDone /\ ~Received) =>
        /\ CycleError
        /\ AckAttempts = <<>>
        /\ EmitAttempts = <<>>
        /\ SyncCalls = 1
        /\ syncRequested

\* C11 witness: receive raised while a message was waiting on the queue.
C11_Witness ==
    /\ CycleDone
    /\ Failed("receive")
    /\ queue # <<>>
    /\ SyncCalls = 1

\* The probe that just returned got as far as a successful peek.
PeekOk == \E i \in 1..Len(log) : log[i].op = "peek" /\ log[i].ok
ProbeDone == handler = "sync" /\ Idle

\* C12: the status a probe produces is its verdict: ready when the session
\* opened and peek succeeded, failed with the error's message as description
\* when opening or peek raised.
C12_StatusIsProbeVerdict ==
    ProbeDone =>
        /\ PeekOk => status = "ready" /\ description = "none"
        /\ ~PeekOk => status = "failed" /\ description # "none"

TriggerDone == handler = "trigger" /\ Idle

\* C13: a scheduled trigger calls lifecycle.sync() exactly when the status it
\* found was failed or its poll cycle ended in error, and then once; a cycle
\* that ends ok on a ready block calls it not at all.
C13_ReprobeExactlyOnFailedOrError ==
    TriggerDone =>
        /\ SyncCalls = (IF status = "failed" \/ CycleError THEN 1 ELSE 0)
        /\ (status = "failed" \/ CycleError) => syncRequested

\* C13 witness: a trigger found the block failed and asked for a re-probe,
\* after an earlier cycle had consumed a message.
C13_Witness ==
    /\ TriggerDone
    /\ status = "failed"
    /\ SyncCalls = 1
    /\ Len(queue) < nextId - 1

\* A probe that has reached its return without raising, run right after a
\* poll cycle that ended in error on a ready block.
ProbeSucceedsAfterPollError ==
    /\ handler = "sync" /\ pc = "sFinally" /\ ~caught
    /\ CycleError
    /\ status = "ready"

\* C14: no step of a scheduled trigger changes the status, only the return
\* of onSync or onDrain does; and the probe that succeeds after a poll cycle
\* that ended in error leaves the status ready.
C14_PollNeverSetsStatus ==
    [][ /\ status' # status =>
            \/ handler = "sync" /\ pc = "sFinally"
            \/ handler' = "drain"
        /\ handler' = "trigger" => status' = status
        /\ ProbeSucceedsAfterPollError => status' = "ready" ]_vars

\* C14 witness: the re-probe asked for by a cycle that ended in error is about
\* to return ready, and the status has been ready all along.
C14_Witness ==
    /\ ProbeSucceedsAfterPollError
    /\ PeekOk
    /\ syncRequested = FALSE

\* C15: once the provider stays up, a failed block becomes ready (or is
\* drained); once it stays down, a ready block becomes failed (or is drained).
C15_HealthConverges ==
    /\ (status = "failed" /\ provider = "up") ~> (status \in {"ready", "drained"})
    /\ (status = "ready" /\ provider = "down") ~> (status \in {"failed", "drained"})

\* C15 witness: with the provider up for good, the re-probe that a trigger
\* asked for on a failed block is about to return ready.
C15_Witness ==
    /\ provider = "up"
    /\ status = "failed"
    /\ handler = "sync" /\ pc = "sFinally" /\ ~caught
    /\ outcome = "reprobe"

C17_NoPollingUnlessReadyOrFailed ==
    [][ (handler' = "trigger" /\ status' \notin {"ready", "failed"}) =>
            /\ pc' = "done"
            /\ log' = <<>>
            /\ outcome' = "skipped"
            /\ UNCHANGED <<kvCheck, kvRecv, syncRequested, status>> ]_vars

\* C17 witness: the schedule fired on a drained block while a message was
\* waiting on the queue.
C17_Witness ==
    /\ TriggerDone
    /\ status = "drained"
    /\ outcome = "skipped"
    /\ queue # <<>>

\* C18: whenever the status is drained, lastCheckTime and
\* lastMessageReceivedTime are absent from the store; and when onDrain has
\* just returned, both signals are null.
C18_DrainClearsConsumerState ==
    /\ status = "drained" => kvCheck = Null /\ kvRecv = Null
    /\ (handler = "drain" /\ Idle) => sigCheck = Null /\ sigRecv = Null

\* C18 witness: a connection-string block that had consumed a message (and so
\* had stored both timestamps) was drained, and the schedule has fired since.
C18_Witness ==
    /\ variant = "conn"
    /\ status = "drained"
    /\ TriggerDone
    /\ Len(queue) < nextId - 1
    /\ kvCheck = Null /\ kvRecv = Null

\* C19: the sessions open on the provider are exactly the one the handler in
\* progress holds, so never more than one: a probe and a poll cycle do not
\* overlap, the re-probe a cycle asks for included.
C19_OneSessionAtATime ==
    /\ sessions <= 1
    /\ sessions = (IF pc # "done" /\ HoldsSession THEN 1 ELSE 0)

\* C19 witness: the re-probe that a poll cycle asked for when it ended in
\* error is in progress and holds the only session.
C19_Witness ==
    /\ handler = "sync" /\ pc = "sPeek"
    /\ CycleError
    /\ sessions = 1

\* C20: a close that raises never changes the outcome: a poll cycle whose
\* receive, acknowledgments and emits all succeeded ends ok and calls no
\* lifecycle.sync(), and a probe whose peek succeeded leaves the status ready.
C20_CloseFailureIsSwallowed ==
    /\ (CycleDone /\ Received /\ ~Failed("ack") /\ ~Failed("emit")) =>
            outcome = "ok" /\ SyncCalls = 0
    /\ (ProbeDone /\ PeekOk) => status = "ready"

\* C21: no provider failure escapes from a probe or from the
\* connection-string poll trigger: a probe ends with ready or failed as the
\* status, and that trigger returns normally, having stored lastCheckTime
\* and called lifecycle.sync() when its catch block ran.
C21_ProviderFailuresAreCaught ==
    /\ ProbeDone => outcome \in {"ready", "failed"} /\ status = outcome
    /\ (variant = "conn" /\ TriggerDone) =>
            /\ outcome \in {"reprobe", "skipped", "ok", "error"}
            /\ caught => /\ outcome = "error"
                         /\ kvCheck = startedAt
                         /\ SyncCalls = 1

\* C21 witness: a connection-string cycle in which completeMessage raised has
\* returned normally.
C21_Witness ==
    /\ variant = "conn"
    /\ TriggerDone
    /\ Failed("ack")
    /\ outcome = "error"

\* C22: with a configuration that cannot work, the probe leaves the block
\* failed with a description, and a scheduled trigger that finds it so asks
\* for no new probe.
C22_ConfigErrorIsNotRetried ==
    /\ (~configOk /\ ProbeDone) => status = "failed" /\ description # "none"
    /\ (~configOk /\ TriggerDone /\ status = "failed") => SyncCalls = 0

\* A step of a probe, from its start to its return.
ProbeStep == handler' = "sync" /\ (pc # "done" \/ pc' # "done")
ProbeCalls == {"open", "peek", "rclose", "close"}

\* C23: no step of a probe changes the queue or the stored lastCheckTime and
\* lastMessageReceivedTime, and the only calls a probe makes are opening the
\* session, peek and the closes: no receive, acknowledgment or emit.
C23_ProbeMutatesNothing ==
    [][ ProbeStep =>
            /\ UNCHANGED <<queue, kvCheck, kvRecv>>
            /\ \A i \in 1..Len(log') : log'[i].op \in ProbeCalls ]_vars

\* C23 witness: a probe has peeked a queue that holds a message, on a block
\* that has stored timestamps; message and timestamps are still there.
C23_Witness ==
    /\ ProbeDone
    /\ PeekOk
    /\ queue # <<>>
    /\ kvCheck # Null

\* The probe's peek succeeded and handed back no message.
PeekedNothing == \E i \in 1..Len(log) : log[i] = Entry("peek", 0, TRUE)

\* C24: a probe whose peek returned zero messages from a reachable, empty
\* queue leaves the status ready.
C24_EmptyQueueProbeIsReady ==
    (ProbeDone /\ PeekedNothing /\ queue = <<>>) => status = "ready"

\* C25: the count handed to receive is never above 2047; a configured
\* maxMessages above 2047 is passed as 2047, and a warning is recorded.
C25_ReceiveCountIsClamped ==
    pure.fn = "maxMessages" =>
        /\ pure.res.count <= ReceiveCeiling
        /\ (pure.arg > ReceiveCeiling) =>
                pure.res.count = ReceiveCeiling /\ pure.res.warned

\* Reading the call log of a Queue Reader trigger.
ReaderDone == handler = "event" /\ Idle
IsReaderEvent(e) == e.op \in {"emitConnected", "emitError"} /\ e.ok
ReaderEvents == SelectSeq(log, IsReaderEvent)
\* Open, receive, complete and receiver.close all returned.
ReaderCallsOk == \E i \in 1..Len(log) : log[i].op = "rclose" /\ log[i].ok

\* C26: every Queue Reader trigger returns to the host without raising and
\* has emitted exactly one event: connected when open, receive, complete and
\* close all succeeded, error with message null otherwise.
C26_ReaderReportsByEvent ==
    ReaderDone =>
        /\ outcome # "raised"
        /\ Len(ReaderEvents) = 1
        /\ ReaderEvents[1].op =
                (IF ReaderCallsOk THEN "emitConnected" ELSE "emitError")
        /\ ReaderEvents[1].op = "emitError" => ReaderEvents[1].m = 0

C28_BodyIsParsedJson ==
    pure.fn = "parseMessage" =>
        LET raw == RawBody(pure.arg.body) IN
        /\ pure.res.body =
                (IF raw.type = "string" /\ raw.v \in JsonTexts
                 THEN JsonValue(raw.v) ELSE raw)
        /\ pure.res.hasRaw => pure.res.rawBody = raw

\* C29: parseMessage returns a record for every message; a field absent from
\* the message is the empty string in it (the empty mapping for
\* applicationProperties), a field present is kept, and sequenceNumber and
\* enqueuedTime are strings.
C29_AbsentFieldsDefault ==
    pure.fn = "parseMessage" =>
        LET msg == pure.arg
            out == pure.res
        IN  /\ \A f \in {"messageId", "contentType", "correlationId"} :
                out[f] = (IF msg[f] = Undefined THEN Str("") ELSE msg[f])
            /\ out.sequenceNumber.type = "string"
            /\ out.sequenceNumber.v = msg.sequenceNumber.v
            /\ out.enqueuedTime.type = "string"
            /\ out.enqueuedTime.v = msg.enqueuedTimeUtc.v
            /\ out.applicationProperties =
                (IF msg.applicationProperties = Undefined
                 THEN [type |-> "object", v |-> "{}"]
                 ELSE msg.applicationProperties)

\* C29 witness: a message with no body and none of the optional fields was
\* normalized by the connection-string version.
C29_Witness ==
    /\ pure.fn = "parseMessage"
    /\ variant = "conn"
    /\ pure.arg = [body |-> Undefined, messageId |-> Undefined,
                   enqueuedTimeUtc |-> Undefined, sequenceNumber |-> Undefined,
                   contentType |-> Undefined, correlationId |-> Undefined,
                   applicationProperties |-> Undefined]
    /\ pure.res.sequenceNumber = Str("")

\* C30 as stated: the credential returns the configured token, expiring at
\* the configured accessTokenExpiry when one is supplied and otherwise one
\* hour after the token was issued.
C30_ExpiryFromIssuance ==
    pure.fn = "getToken" =>
        /\ pure.res.token = pure.arg.config.accessToken
        /\ pure.res.expiresOnTimestamp =
            (IF pure.arg.config.accessTokenExpiry.given
             THEN pure.arg.config.accessTokenExpiry.n
             ELSE pure.arg.issuedAt + OneHourMs)

\* C30 amended: without a supplied expiry the credential expires one hour
\* after the client for the session is created.
C30_ExpiryFromClientCreation ==
    pure.fn = "getToken" =>
        /\ pure.res.token = pure.arg.config.accessToken
        /\ pure.res.expiresOnTimestamp =
            (IF pure.arg.config.accessTokenExpiry.given
             THEN pure.arg.config.accessTokenExpiry.n
             ELSE pure.arg.now + OneHourMs)

\* C30 witness: no expiry is configured and the session is opened two hours
\* after the token was issued.
C30_Witness ==
    /\ pure.fn = "getToken"
    /\ ~pure.arg.config.accessTokenExpiry.given
    /\ pure.arg.now = pure.arg.issuedAt + 2 * OneHourMs
    /\ pure.res.expiresOnTimestamp = pure.arg.now + OneHourMs

\* A scheduled trigger starts on a block whose status is failed.
FailedTriggerStep ==
    /\ Idle
    /\ status = "failed"
    /\ handler' = "trigger"
    /\ clock' # clock

\* C31: a scheduled trigger that finds the status failed only asks for a
\* re-probe: lifecycle.sync() is its single call (no session opened, nothing
\* received, acknowledged or emitted), it returns at once, and the queue, the
\* stored lastCheckTime and lastMessageReceivedTime, their signals and the
\* number of open sessions are what they were.
C31_FailedTriggerOnlyReprobes ==
    [][ FailedTriggerStep =>
            /\ log' = SyncCall
            /\ syncRequested'
            /\ pc' = "done" /\ outcome' = "reprobe"
            /\ client' = "null"
            /\ UNCHANGED <<queue, kvCheck, kvRecv, sigCheck, sigRecv,
                           sessions, status>> ]_vars

\* C31 witness: a trigger has run on a failed block that has a stored
\* lastCheckTime and a message waiting; the message is still on the queue.
C31_Witness ==
    /\ TriggerDone
    /\ status = "failed"
    /\ outcome = "reprobe"
    /\ log = SyncCall
    /\ queue # <<>>
    /\ kvCheck # Null

\* C32: at the end of a Queue Reader trigger every message that was completed
\* on the queue is the message of a connected event the trigger emitted.  The
\* code completes the message before receiver.close() and before the emit,
\* both of which can raise, so this is violated.
C32_ReaderCompletedIsDelivered ==
    ReaderDone =>
        \A k \in 1..Len(Acked) :
            \E i \in 1..Len(log) : log[i] = Entry("emitConnected", Acked[k], TRUE)

\* Reading a finished poll cycle: position of the first call of kind op.
FirstCall(op) ==
    CHOOSE i \in 1..Len(log) :
        /\ log[i].op = op
        /\ \A j \in 1..(i - 1) : log[j].op # op
Called(op) == \E i \in 1..Len(log) : log[i].op = op
SessionCalls == {"receive", "ack", "emit", "rclose"}
FailedCalls == {i \in 1..Len(log) : log[i].op \in SessionCalls /\ ~log[i].ok}

\* The failure that sent the cycle to its catch block: the call of the try
\* block that raised, or the step of opening the session that did.
CycleFailure ==
    IF client = "null" THEN "ctor"
    ELSE IF FailedCalls = {} THEN "createReceiver"
    ELSE log[CHOOSE i \in FailedCalls : \A j \in FailedCalls : i <= j].op

\* C33: a token-version poll cycle that fails calls lifecycle.sync() once and
\* raises to the host; what it raises is the failure that sent it to the
\* catch block, also when the closing of the client raised afterwards; a
\* client that was built is closed after the lifecycle.sync() call and no
\* session stays open.
C33_TokenCycleReraises ==
    (variant = "token" /\ CycleDone /\ caught) =>
        /\ outcome = "raised"
        /\ SyncCalls = 1 /\ syncRequested
        /\ thrown = CycleFailure
        /\ client = "open" =>
                /\ Called("close")
                /\ FirstCall("sync") < FirstCall("close")
        /\ ~HoldsSession /\ sessions = 0

\* C33 witness: a token-version cycle whose completeMessage raised, and whose
\* client.close() raised after that, has raised the completeMessage failure.
C33_Witness ==
    /\ variant = "token"
    /\ CycleDone
    /\ thrown = "ack"
    /\ Entry("close", 0, FALSE) = log[Len(log)]
    /\ syncRequested

\* A poll cycle is running and its receive has returned a batch.
CycleHasBatch == handler = "trigger" /\ Received

\* The cycle has returned or raised, and its last call closed the client.
CycleClosed ==
    /\ CycleDone
    /\ Received
    /\ log # <<>> /\ log[Len(log)].op = "close"

\* C34: the batch receive returns holds at most the requested count of
\* messages; the cycle then makes at most one acknowledgment and one emit per
\* message of the batch, and every such cycle comes to its end with the
\* client close as its last call, whether it ends ok or in error.
C34_CycleIsBounded ==
    /\ [](CycleHasBatch =>
            /\ Len(batch) <= RequestedCount
            /\ Len(AckAttempts) <= Len(batch)
            /\ Len(EmitAttempts) <= Len(batch)
            /\ idx <= Len(batch) + 1)
    /\ ((CycleHasBatch /\ ~Idle) ~> CycleClosed)

\* C34 witness: a cycle that received a full batch and acknowledged and
\* emitted every message of it has closed its client.
C34_Witness ==
    /\ CycleClosed
    /\ Len(batch) = RequestedCount
    /\ Len(AckAttempts) = Len(batch)
    /\ Len(EmitAttempts) = Len(batch)

\* C35: whatever maxMessages and receiveTimeoutSeconds are configured, the
\* count handed to receive is positive, and 10 when maxMessages is unset, and
\* the wait handed to receive is positive, and 5 seconds when
\* receiveTimeoutSeconds is unset.  `||` replaces only an unset or zero
\* value, so a negative one is passed on and this is violated.
C35_ReceiveArgsArePositive ==
    pure.fn = "receiveArgs" =>
        /\ pure.res.count > 0
        /\ pure.res.maxWaitTimeInMs > 0
        /\ pure.arg.maxMessages = Null =>
                pure.res.count = DefaultMaxMessages
        /\ pure.arg.receiveTimeoutSeconds = Null =>
                pure.res.maxWaitTimeInMs = DefaultTimeoutSeconds * MsPerSecond

====
